---- MODULE Spec2Model ----
(***************************************************************************)
(* A model of the fixed-size thread pool of src/lib.rs: ThreadPool::new,   *)
(* ThreadPool::execute, the Drop implementation and the loop of the worker *)
(* threads over the mutex-protected receiving end of an mpsc channel.      *)
(* Jobs are identified by the ordinal of the execute call that submits     *)
(* them.  Worker ids are 0..size-1 as in the source.                       *)
(***************************************************************************)
EXTENDS Integers, Sequences, FiniteSets, TLC

\* Largest argument of ThreadPool::new that is explored.
MaxSize == 3
\* Largest number of calls of execute that is explored.
MaxJobs == 3

Workers == 0 .. (MaxSize - 1)
Jobs == 1 .. MaxJobs

VARIABLES
  ownerPc,    \* position of the thread that constructs and drops the pool
  size,       \* the argument of ThreadPool::new
  channel,    \* TRUE once mpsc::channel() has been called
  sender,     \* TRUE while a Sender exists (Some(sender)); FALSE is None
  workers,    \* Len(workers): number of Worker values pushed so far
  thread,     \* thread[w]: Worker.thread is Some(handle)
  pc,         \* pc[w]: position of worker thread w in its loop
  lockHolder, \* set of workers holding the MutexGuard (at most one)
  poisoned,   \* the Mutex is poisoned
  message,    \* message[w]: the value of `message` in worker w
  queue,      \* the jobs buffered in the channel, oldest first
  joinIdx,    \* index of the worker the loop of drop is at
  calls,      \* number of execute calls made so far
  outcome,    \* outcome[j]: what the j-th execute call did
  dequeued,   \* history: jobs in the order recv returned them
  runs,       \* history: runs[j] = number of times job j's body was started
  done,       \* history: jobs whose body returned
  failed,     \* history: jobs whose body panicked
  joins       \* history: joins[w] = number of times thread w was joined

vars == <<ownerPc, size, channel, sender, workers, thread, pc, lockHolder,
          poisoned, message, queue, joinIdx, calls, outcome, dequeued, runs,
          done, failed, joins>>

NoMessage == [tag |-> "none", job |-> 0]
Ok(j) == [tag |-> "Ok", job |-> j]
Err == [tag |-> "Err", job |-> 0]

\* Variant: join that does not wait for the thread.
FinishedAny(w) == TRUE

\* A thread has finished: its closure returned (break) or unwound (panic).
Finished(w) == pc[w] \in {"exited", "panicked"}

\* Variant: a clone of the Arc kept by the pool keeps the Receiver alive.
ReceiverKept(p) == TRUE

\* The Receiver lives while some Arc clone of it does: the local `receiver`
\* of new, or the clone captured by a worker thread that has not finished.
ReceiverAlive(p) ==
  \/ ownerPc = "spawning"
  \/ \E w \in Workers : p[w] \notin {"unspawned", "exited", "panicked"}

\* Variant: the assertion admits zero.
SizeAny(n) == n >= 0

\* assert!(size > 0)
SizeOk(n) == n > 0

\* Variants: recv that hands out the newest job; recv that leaves the job
\* it returns in the buffer.
NextJobLast(q) == q[Len(q)]
RestKeep(q) == q

\* recv on a channel: the oldest buffered job, and what stays buffered.
NextJob(q) == Head(q)
Rest(q) == Tail(q)

\* Variants: a receive that never reports closure; a receive that reports
\* Err on an empty channel (try_recv).
NeverDisconnected(q, s) == FALSE
DisconnectedOrEmpty(q, s) == q = <<>>

\* recv reports Err only when nothing is buffered and every Sender is gone.
Disconnected(q, s) == q = <<>> /\ ~s

\* Variant: the guard outlives the statement (as a temporary of a match
\* scrutinee would) and is dropped only at the end of the iteration.
GuardKept(h, w) == h

\* The temporary MutexGuard of `receiver.lock().unwrap().recv()` is dropped
\* at the end of the let statement.
GuardDropped(h, w) == h \ {w}

\* Variant: execute that does not notice the absent sender.
OutcomeUnchecked(s, r) == IF ~r THEN "send_failed" ELSE "accepted"

\* self.sender.as_ref().unwrap().send(job).unwrap()
Outcome(s, r) ==
  IF ~s THEN "no_sender" ELSE IF ~r THEN "send_failed" ELSE "accepted"

Init ==
  /\ ownerPc = "start"
  /\ size = 0
  /\ channel = FALSE
  /\ sender = FALSE
  /\ workers = 0
  /\ thread = [w \in Workers |-> FALSE]
  /\ pc = [w \in Workers |-> "unspawned"]
  /\ lockHolder = {}
  /\ poisoned = FALSE
  /\ message = [w \in Workers |-> NoMessage]
  /\ queue = <<>>
  /\ joinIdx = 0
  /\ calls = 0
  /\ outcome = [j \in Jobs |-> "none"]
  /\ dequeued = <<>>
  /\ runs = [j \in Jobs |-> 0]
  /\ done = {}
  /\ failed = {}
  /\ joins = [w \in Workers |-> 0]

----
\* ThreadPool::new up to the spawn loop: the assertion, then the channel and
\* the Arc<Mutex<Receiver>>.
NewStart(n) ==
  /\ ownerPc = "start"
  /\ size' = n
  /\ IF SizeOk(n)
       THEN /\ ownerPc' = "spawning"
            /\ channel' = TRUE
            /\ sender' = TRUE
       ELSE /\ ownerPc' = "new_panicked"
            /\ UNCHANGED <<channel, sender>>
  /\ UNCHANGED <<workers, thread, pc, lockHolder, poisoned, message, queue,
                 joinIdx, calls, outcome, dequeued, runs, done, failed, joins>>

\* One iteration of `for id in 0..size`: Worker::new spawns the thread.
NewSpawn ==
  /\ ownerPc = "spawning"
  /\ workers < size
  /\ pc' = [pc EXCEPT ![workers] = "lock"]
  /\ thread' = [thread EXCEPT ![workers] = TRUE]
  /\ workers' = workers + 1
  /\ UNCHANGED <<ownerPc, size, channel, sender, lockHolder, poisoned,
                 message, queue, joinIdx, calls, outcome, dequeued, runs,
                 done, failed, joins>>

\* new returns ThreadPool { workers, sender: Some(sender) }.
NewReturn ==
  /\ ownerPc = "spawning"
  /\ workers = size
  /\ ownerPc' = "alive"
  /\ UNCHANGED <<size, channel, sender, workers, thread, pc, lockHolder,
                 poisoned, message, queue, joinIdx, calls, outcome, dequeued,
                 runs, done, failed, joins>>

\* Variant: execute over a bounded channel (sync_channel(1)), whose send
\* waits for room.
ExecuteBounded ==
  /\ ownerPc \in {"alive", "take", "join"}
  /\ calls < MaxJobs
  /\ Len(queue) < 1
  /\ calls' = calls + 1
  /\ outcome' = [outcome EXCEPT ![calls + 1] = Outcome(sender, ReceiverAlive(pc))]
  /\ queue' = IF outcome'[calls + 1] = "accepted"
                THEN Append(queue, calls + 1)
                ELSE queue
  /\ UNCHANGED <<ownerPc, size, channel, sender, workers, thread, pc,
                 lockHolder, poisoned, message, joinIdx, dequeued, runs, done,
                 failed, joins>>

\* ThreadPool::execute, called on a pool that exists (constructed and not
\* yet destroyed); a call made once drop has taken the sender is the usage
\* error that unwrap turns into a panic.
Execute ==
  /\ ownerPc \in {"alive", "take", "join"}
  /\ calls < MaxJobs
  /\ calls' = calls + 1
  /\ outcome' = [outcome EXCEPT ![calls + 1] = Outcome(sender, ReceiverAlive(pc))]
  /\ queue' = IF outcome'[calls + 1] = "accepted"
                THEN Append(queue, calls + 1)
                ELSE queue
  /\ UNCHANGED <<ownerPc, size, channel, sender, workers, thread, pc,
                 lockHolder, poisoned, message, joinIdx, dequeued, runs, done,
                 failed, joins>>

\* Variant: drop that goes on to join without releasing the sender.
DropStartKeepsSender ==
  /\ ownerPc = "alive"
  /\ ownerPc' = "take"
  /\ joinIdx' = 0
  /\ UNCHANGED <<size, channel, sender, workers, thread, pc, lockHolder,
                 poisoned, message, queue, calls, outcome, dequeued, runs,
                 done, failed, joins>>

\* drop(self.sender.take())
DropStart ==
  /\ ownerPc = "alive"
  /\ sender' = FALSE
  /\ ownerPc' = "take"
  /\ joinIdx' = 0
  /\ UNCHANGED <<size, channel, workers, thread, pc, lockHolder, poisoned,
                 message, queue, calls, outcome, dequeued, runs, done, failed,
                 joins>>

\* `for worker in &mut self.workers { if let Some(thread) = worker.thread.take()`
\* and the return of drop when the loop is over.
DropTake ==
  /\ ownerPc = "take"
  /\ IF joinIdx < workers
       THEN IF thread[joinIdx]
              THEN /\ thread' = [thread EXCEPT ![joinIdx] = FALSE]
                   /\ ownerPc' = "join"
                   /\ UNCHANGED joinIdx
              ELSE /\ joinIdx' = joinIdx + 1
                   /\ UNCHANGED <<thread, ownerPc>>
       ELSE /\ ownerPc' = "dropped"
            /\ UNCHANGED <<thread, joinIdx>>
  /\ UNCHANGED <<size, channel, sender, workers, pc, lockHolder, poisoned,
                 message, queue, calls, outcome, dequeued, runs, done, failed,
                 joins>>

\* thread.join().unwrap(): join waits for the thread to finish and returns
\* Err when it panicked, which unwrap turns into a panic of drop.
DropJoin ==
  /\ ownerPc = "join"
  /\ Finished(joinIdx)
  /\ joins' = [joins EXCEPT ![joinIdx] = @ + 1]
  /\ IF pc[joinIdx] = "panicked"
       THEN /\ ownerPc' = "drop_panicked"
            /\ UNCHANGED joinIdx
       ELSE /\ ownerPc' = "take"
            /\ joinIdx' = joinIdx + 1
  /\ UNCHANGED <<size, channel, sender, workers, thread, pc, lockHolder,
                 poisoned, message, queue, calls, outcome, dequeued, runs,
                 done, failed>>

----
\* The end of worker thread w: its closure, and with it its clone of the
\* Arc, is dropped; the last clone drops the Receiver and what it buffers.
Terminate(w, how) ==
  /\ pc' = [pc EXCEPT ![w] = how]
  /\ queue' = IF ReceiverAlive(pc') THEN queue ELSE <<>>

\* Variants: a lock that does not exclude (the receiver shared without the
\* mutex); a worker that is restarted after its thread has finished.
LockUnguarded(w) ==
  /\ pc[w] = "lock"
  /\ IF poisoned
       THEN /\ Terminate(w, "panicked")
            /\ UNCHANGED lockHolder
       ELSE /\ pc' = [pc EXCEPT ![w] = "recv"]
            /\ lockHolder' = lockHolder \cup {w}
            /\ UNCHANGED queue
  /\ UNCHANGED <<ownerPc, size, channel, sender, workers, thread, poisoned,
                 message, joinIdx, calls, outcome, dequeued, runs, done,
                 failed, joins>>

LockAfterDeath(w) ==
  /\ pc[w] \in {"lock", "exited", "panicked"}
  /\ lockHolder = {}
  /\ IF poisoned
       THEN /\ Terminate(w, "panicked")
            /\ UNCHANGED lockHolder
       ELSE /\ pc' = [pc EXCEPT ![w] = "recv"]
            /\ lockHolder' = {w}
            /\ UNCHANGED queue
  /\ UNCHANGED <<ownerPc, size, channel, sender, workers, thread, poisoned,
                 message, joinIdx, calls, outcome, dequeued, runs, done,
                 failed, joins>>

\* receiver.lock().unwrap(): blocks while another worker holds the guard;
\* a poisoned mutex makes lock return Err and unwrap panic.
Lock(w) ==
  /\ pc[w] = "lock"
  /\ lockHolder = {}
  /\ IF poisoned
       THEN /\ Terminate(w, "panicked")
            /\ UNCHANGED lockHolder
       ELSE /\ pc' = [pc EXCEPT ![w] = "recv"]
            /\ lockHolder' = {w}
            /\ UNCHANGED queue
  /\ UNCHANGED <<ownerPc, size, channel, sender, workers, thread, poisoned,
                 message, joinIdx, calls, outcome, dequeued, runs, done,
                 failed, joins>>

\* .recv() under the guard: blocks while the channel is empty and a Sender
\* exists.
Recv(w) ==
  /\ pc[w] = "recv"
  /\ IF queue # <<>>
       THEN /\ message' = [message EXCEPT ![w] = Ok(NextJob(queue))]
            /\ queue' = Rest(queue)
            /\ dequeued' = Append(dequeued, NextJob(queue))
       ELSE /\ Disconnected(queue, sender)
            /\ message' = [message EXCEPT ![w] = Err]
            /\ UNCHANGED <<queue, dequeued>>
  /\ pc' = [pc EXCEPT ![w] = "unlock"]
  /\ UNCHANGED <<ownerPc, size, channel, sender, workers, thread, lockHolder,
                 poisoned, joinIdx, calls, outcome, runs, done, failed, joins>>

\* End of `let message = ...;`: the temporary guard is dropped.
Unlock(w) ==
  /\ pc[w] = "unlock"
  /\ lockHolder' = GuardDropped(lockHolder, w)
  /\ pc' = [pc EXCEPT ![w] = "match"]
  /\ UNCHANGED <<ownerPc, size, channel, sender, workers, thread, poisoned,
                 message, queue, joinIdx, calls, outcome, dequeued, runs,
                 done, failed, joins>>

\* match message: Ok(job) calls the job, Err(_) breaks out of the loop.
Match(w) ==
  /\ pc[w] = "match"
  /\ IF message[w].tag = "Ok"
       THEN /\ pc' = [pc EXCEPT ![w] = "job"]
            /\ runs' = [runs EXCEPT ![message[w].job] = @ + 1]
            /\ UNCHANGED queue
       ELSE /\ Terminate(w, "exited")
            /\ UNCHANGED runs
  /\ UNCHANGED <<ownerPc, size, channel, sender, workers, thread, lockHolder,
                 poisoned, message, joinIdx, calls, outcome, dequeued, done,
                 failed, joins>>

\* job() returns; the loop goes round (ending the iteration drops whatever
\* the iteration still holds; in the source the guard is already gone).
JobReturn(w) ==
  /\ pc[w] = "job"
  /\ done' = done \cup {message[w].job}
  /\ message' = [message EXCEPT ![w] = NoMessage]
  /\ lockHolder' = lockHolder \ {w}
  /\ pc' = [pc EXCEPT ![w] = "lock"]
  /\ UNCHANGED <<ownerPc, size, channel, sender, workers, thread, poisoned,
                 queue, joinIdx, calls, outcome, dequeued, runs, failed,
                 joins>>

\* job() panics: nothing catches it, the thread unwinds; a guard held at that
\* moment would be dropped poisoning the mutex.
JobPanic(w) ==
  /\ pc[w] = "job"
  /\ failed' = failed \cup {message[w].job}
  /\ message' = [message EXCEPT ![w] = NoMessage]
  /\ poisoned' = (poisoned \/ w \in lockHolder)
  /\ lockHolder' = lockHolder \ {w}
  /\ Terminate(w, "panicked")
  /\ UNCHANGED <<ownerPc, size, channel, sender, workers, thread, joinIdx,
                 calls, outcome, dequeued, runs, done, joins>>

----
WorkerStep(w) == Lock(w) \/ Recv(w) \/ Unlock(w) \/ Match(w)

Next ==
  \/ \E n \in 0 .. MaxSize : NewStart(n)
  \/ NewSpawn
  \/ NewReturn
  \/ Execute
  \/ DropStart
  \/ DropTake
  \/ DropJoin
  \/ \E w \in Workers : Lock(w)
  \/ \E w \in Workers : Recv(w)
  \/ \E w \in Workers : Unlock(w)
  \/ \E w \in Workers : Match(w)
  \/ \E w \in Workers : JobReturn(w)
  \/ \E w \in Workers : JobPanic(w)

Spec == Init /\ [][Next]_vars

\* The operating system runs every thread that can take a step: a worker in
\* its loop, and the thread inside drop.  Nothing obliges a job body to
\* return, nor the owner to submit or to drop.
WorkerFairness == \A w \in Workers : WF_vars(WorkerStep(w))

LiveSpec ==
  /\ Init /\ [][Next]_vars
  /\ WorkerFairness
  /\ WF_vars(DropTake)
  /\ WF_vars(DropJoin)

\* The pool with jobs that terminate and do not fail.
NextNoFail ==
  \/ \E n \in 0 .. MaxSize : NewStart(n)
  \/ NewSpawn
  \/ NewReturn
  \/ Execute
  \/ DropStart
  \/ DropTake
  \/ DropJoin
  \/ \E w \in Workers : Lock(w)
  \/ \E w \in Workers : Recv(w)
  \/ \E w \in Workers : Unlock(w)
  \/ \E w \in Workers : Match(w)
  \/ \E w \in Workers : JobReturn(w)

NoFailSpec ==
  /\ Init /\ [][NextNoFail]_vars
  /\ WorkerFairness
  /\ \A w \in Workers : WF_vars(JobReturn(w))

\* The pool with jobs that terminate, by returning or by panicking.
FaultSpec ==
  /\ Init /\ [][Next]_vars
  /\ WorkerFairness
  /\ \A w \in Workers : WF_vars(JobReturn(w))

----
Range(q) == {q[i] : i \in 1 .. Len(q)}
Accepted == {j \in Jobs : outcome[j] = "accepted"}
Spawned == 0 .. (size - 1)
Holders(j) == {w \in Workers : message[w] = Ok(j)}
Running(j) == \E w \in Workers : pc[w] = "job" /\ message[w] = Ok(j)

\* C1: when drop returns, and no job has failed, every submitted job has
\* finished executing, the queue is empty and every worker thread has exited.
C1_DropReturnsAfterAllWork ==
  (ownerPc = "dropped" /\ failed = {}) =>
    /\ Accepted \subseteq done
    /\ queue = <<>>
    /\ \A w \in Spawned : pc[w] = "exited"

C1_Witness ==
  /\ ownerPc = "dropped"
  /\ size >= 2
  /\ Cardinality(done) >= 2

\* C2: no job is delivered twice: each job is returned by recv at most once,
\* is held by at most one worker, starts at most once, and once dequeued is
\* no longer in the queue.
C2_NoDoubleDelivery ==
  \A j \in Jobs :
    /\ Cardinality({i \in 1 .. Len(dequeued) : dequeued[i] = j}) <= 1
    /\ Cardinality(Holders(j)) <= 1
    /\ runs[j] <= 1
    /\ j \in Range(dequeued) => j \notin Range(queue)
    /\ (runs[j] > 0 \/ Holders(j) # {}) => j \in Range(dequeued)

C2_Witness ==
  \E v, w \in Workers :
    /\ v # w
    /\ pc[v] = "job" /\ pc[w] = "job"
    /\ message[v].job # message[w].job
    /\ queue # <<>>

\* C3: with jobs that terminate and do not fail, and fair scheduling of the
\* worker threads, every accepted job eventually finishes executing, whether
\* or not the pool is ever dropped.
C3_AcceptedEventuallyDone ==
  \A j \in Jobs : (outcome[j] = "accepted") ~> (runs[j] = 1 /\ j \in done)

C3_Witness ==
  /\ ownerPc = "alive"
  /\ Accepted = Jobs
  /\ done = Jobs

\* C4: jobs leave the queue in submission order: of two accepted jobs, the
\* later one is dequeued only after the earlier one.
C4_DequeueInSubmissionOrder ==
  \A i \in 1 .. Len(dequeued) :
    \A a \in Accepted :
      a < dequeued[i] => \E h \in 1 .. (i - 1) : dequeued[h] = a

C4_Witness ==
  /\ size >= 2
  /\ Len(dequeued) >= 3
  /\ \E v, w \in Workers : v # w /\ pc[v] = "job" /\ pc[w] = "job"

\* C5: in a pool of one worker, jobs run strictly one after another in
\* submission order: a job begins only when every earlier job has finished,
\* and no two jobs execute at once.
C5_SingleWorkerSequential ==
  size = 1 =>
    /\ \A a, b \in Jobs : (a < b /\ runs[b] > 0) => a \in done
    /\ Cardinality({j \in Jobs : Running(j)}) <= 1

C5_Witness ==
  /\ size = 1
  /\ 1 \in done
  /\ Running(2)
  /\ queue # <<>>

C7_Construction ==
  /\ (size = 0 /\ ownerPc # "start") =>
       /\ ownerPc = "new_panicked"
       /\ ~channel /\ ~sender /\ workers = 0
       /\ \A w \in Workers : pc[w] = "unspawned" /\ ~thread[w]
  /\ ownerPc = "alive" =>
       /\ size > 0 /\ workers = size
       /\ channel /\ sender
       /\ \A w \in Workers :
            IF w < size THEN pc[w] # "unspawned" /\ thread[w]
                        ELSE pc[w] = "unspawned" /\ ~thread[w]

C7_Witness ==
  /\ ownerPc = "new_panicked"
  /\ size = 0

\* C8: an execute call made when the producer handle is absent fails at the
\* call site, leaves the queue as it was, and its job is never dequeued,
\* held or run by any worker.
C8_Step ==
  \A j \in Jobs :
    (outcome[j] = "none" /\ outcome'[j] # "none" /\ ~sender) =>
      /\ outcome'[j] = "no_sender"
      /\ queue' = queue

C8_Never ==
  \A j \in Jobs :
    outcome[j] = "no_sender" =>
      /\ j \notin Range(queue)
      /\ j \notin Range(dequeued)
      /\ Holders(j) = {}
      /\ runs[j] = 0

C8_LateSubmissionRejected == [][C8_Step]_vars /\ []C8_Never

C8_Witness ==
  /\ \E j \in Jobs : outcome[j] = "no_sender"
  /\ \E w \in Workers : pc[w] = "job"

\* C9: a pool dropped with zero submitted jobs: under fair scheduling drop
\* returns, every worker thread has exited and been joined, and no worker
\* is left holding or waiting for the lock or in recv.
C9_EmptyDropTerminates ==
  (ownerPc = "take" /\ Accepted = {})
    ~> /\ ownerPc = "dropped"
       /\ lockHolder = {}
       /\ \A w \in Spawned : pc[w] = "exited" /\ joins[w] = 1 /\ ~thread[w]

C9_Witness ==
  /\ ownerPc = "dropped"
  /\ Accepted = {}
  /\ size = MaxSize

\* C10: a job failure does not surface to the pool's owner: after a job has
\* failed on a worker, drop still completes without raising a failure.
C10_DropSurvivesJobFailure ==
  failed # {} => ownerPc # "drop_panicked"

----
AllPanicked == size > 0 /\ \A w \in Spawned : pc[w] = "panicked"
RunningWorkers == {w \in Workers : pc[w] \notin {"unspawned", "exited", "panicked"}}

\* C11: in a pool of at least two workers where one job fails, the lock is
\* never left poisoned or held by the finished worker, and (job bodies ending
\* by return or by panic) every other accepted job is run to completion,
\* also while the pool is being destroyed.
C11_LockUsable ==
  /\ ~poisoned
  /\ \A w \in lockHolder : ~Finished(w)

C11_OthersCarryOn ==
  /\ []C11_LockUsable
  /\ \A j \in Jobs :
       (size >= 2 /\ outcome[j] = "accepted")
         ~> (j \in done \/ j \in failed \/ Cardinality(failed) > 1)

C11_Witness ==
  /\ size >= 2
  /\ Cardinality(failed) = 1
  /\ ownerPc \in {"join", "drop_panicked"}
  /\ queue # <<>>
  /\ \E w \in Workers : pc[w] = "recv"

\* C12: while the pool is alive (the producer handle present) execute can
\* always be taken, whatever the length of the queue, the occupation of the
\* workers and the state of the lock.
C12_ExecuteNeverBlocks ==
  (ownerPc = "alive" /\ calls < MaxJobs) => ENABLED Execute

C12_Witness ==
  /\ ownerPc = "alive"
  /\ calls < MaxJobs
  /\ queue # <<>>
  /\ lockHolder # {}
  /\ \E w \in Workers : pc[w] = "job"

\* C13: at most one worker is inside receive, and it is the holder of the
\* lock; no worker that does not hold the lock is reading the channel.
C13_MutualExclusion ==
  /\ Cardinality(lockHolder) <= 1
  /\ Cardinality({w \in Workers : pc[w] \in {"recv", "unlock"}}) <= 1
  /\ \A w \in Workers : pc[w] \in {"recv", "unlock"} <=> w \in lockHolder

C13_Witness ==
  \E v, w \in Workers :
    /\ pc[v] = "recv" /\ v \in lockHolder
    /\ pc[w] = "lock"
    /\ queue # <<>>

\* C14: a worker that is about to execute or is executing a job does not
\* hold the lock: the guard is gone before the job's body starts.
C14_NoLockAcrossJob ==
  \A w \in Workers : pc[w] \in {"match", "job"} => w \notin lockHolder

C14_Witness ==
  \E v, w \in Workers :
    /\ pc[v] = "job"
    /\ pc[w] = "recv" /\ w \in lockHolder

\* C15: a worker exits its loop normally only on the closed signal: at the
\* step by which it exits the producer handle is gone and the queue empty.
C15_Step ==
  \A w \in Workers :
    (pc[w] # "exited" /\ pc'[w] = "exited") =>
      /\ ~sender
      /\ queue = <<>>
      /\ message[w] = Err

C15_ExitOnlyWhenClosed == [][C15_Step]_vars

C15_Witness ==
  /\ \E w \in Workers : pc[w] = "exited"
  /\ Cardinality(done) >= 2

\* C16: teardown releases the producer handle before any handle is taken or
\* joined, and takes and joins the workers one at a time in construction
\* order.
C16_TeardownOrder ==
  /\ (\/ ownerPc \in {"take", "join"}
      \/ \E w \in Workers : joins[w] > 0
      \/ \E w \in Workers : w < workers /\ ~thread[w]) => ~sender
  /\ \A i, k \in Workers :
       (i < k /\ k < workers /\ (~thread[k] \/ joins[k] > 0)) =>
         (~thread[i] /\ joins[i] = 1)
  /\ ownerPc = "join" =>
       /\ ~thread[joinIdx] /\ joins[joinIdx] = 0
       /\ \A k \in Workers : (joinIdx < k /\ k < workers) => thread[k]

C16_Witness ==
  /\ ownerPc = "join"
  /\ joinIdx >= 1

\* C17 (as stated): after every worker has died of a job failure, with the
\* pool alive, execute does not fail and the job enters the queue.
C17_AcceptedAfterTotalDeath ==
  [][(ownerPc = "alive" /\ AllPanicked /\ calls' = calls + 1) =>
       (outcome'[calls'] = "accepted" /\ queue' = Append(queue, calls'))]_vars

\* C17 (amended): after every worker has died of a job failure, with the
\* pool alive, execute fails at the call site (send reports the dropped
\* Receiver and unwrap panics); the job is not enqueued and never run.
C17_Never ==
  \A j \in Jobs :
    outcome[j] = "send_failed" =>
      /\ j \notin Range(queue)
      /\ j \notin Range(dequeued)
      /\ Holders(j) = {}
      /\ runs[j] = 0

C17_RejectedAfterTotalDeath ==
  /\ [][(ownerPc = "alive" /\ AllPanicked /\ calls' = calls + 1) =>
          (outcome'[calls'] = "send_failed" /\ queue' = queue)]_vars
  /\ []C17_Never

C17_Witness ==
  /\ ownerPc = "alive"
  /\ AllPanicked
  /\ size >= 2
  /\ \E j \in Jobs : outcome[j] = "send_failed"

\* C18: a worker that has finished never moves again, never takes the lock
\* or a job, and after construction no worker is created: the set of running
\* workers only shrinks.
C18_Step ==
  /\ \A w \in Workers :
       Finished(w) =>
         /\ pc'[w] = pc[w]
         /\ message'[w] = message[w]
         /\ w \notin lockHolder'
  /\ ownerPc \notin {"start", "spawning"} =>
       /\ workers' = workers
       /\ RunningWorkers' \subseteq RunningWorkers

C18_ExitedIsTerminal == [][C18_Step]_vars

C18_Witness ==
  /\ ownerPc = "alive"
  /\ queue # <<>>
  /\ \E v, w \in Workers : pc[v] = "panicked" /\ pc[w] = "lock"

\* C19: each worker's thread handle is present until drop takes it, is
\* joined at most once, and once teardown has run every worker's handle has
\* been joined exactly once and its slot is absent.
C19_HandleJoinedOnce ==
  /\ \A w \in Workers : joins[w] <= 1
  /\ \A w \in Workers : joins[w] = 1 => ~thread[w]
  /\ ownerPc = "alive" => \A w \in Spawned : thread[w]
  /\ ownerPc \in {"dropped", "drop_panicked"} =>
       \A w \in Spawned : ~thread[w] /\ joins[w] = 1

====
